---- MODULE Spec2Model ----
(***************************************************************************)
(* Model of homework.py: the fitness-tracker module.                       *)
(*                                                                         *)
(* Python numbers are modelled as exact rationals (a signed numerator and  *)
(* a positive denominator, both of unbounded size, held as base-10^4 limb  *)
(* sequences because TLC's integers are 32 bits wide).  Binary floating    *)
(* point rounding is abstracted away; division by zero is kept, as the     *)
(* ZeroDivisionError Python raises.                                        *)
(***************************************************************************)
EXTENDS Integers, Sequences, FiniteSets, TLC

(***************************************************************************)
(* Bind(v, F) is F(v) with v evaluated once: TLC evaluates an operator's   *)
(* argument each time the operator's body uses it (unless it caches it),   *)
(* while a bound variable holds a value.                                   *)
(***************************************************************************)
Bind(v, F(_)) == CHOOSE r \in {F(x) : x \in {v}} : TRUE
Bind2(v, w, F(_, _)) == CHOOSE r \in {F(x, y) : x \in {v}, y \in {w}} : TRUE

(***************************************************************************)
(* Unbounded naturals: little-endian sequences of limbs in 0..Base-1, with *)
(* no leading (last) zero limb; zero is the empty sequence.                *)
(***************************************************************************)
Base == 100 * 100

RECURSIVE NatToBig(_)
NatToBig(n) == IF n = 0 THEN <<>> ELSE <<n % Base>> \o NatToBig(n \div Base)

RECURSIVE TrimTo(_, _)
TrimTo(a, k) == IF k = 0 THEN <<>>
                ELSE IF a[k] = 0 THEN TrimTo(a, k - 1)
                ELSE SubSeq(a, 1, k)

Trim(a) == Bind(a, LAMBDA x : TrimTo(x, Len(x)))

Limb(a, i) == IF i <= Len(a) THEN a[i] ELSE 0

\* The limbs i.. of a + b + c, c being the carry into limb i.
RECURSIVE AddFrom(_, _, _, _)
AddFrom(a, b, i, c) ==
    IF i > Len(a) /\ i > Len(b) THEN (IF c = 0 THEN <<>> ELSE <<c>>)
    ELSE Bind(Limb(a, i) + Limb(b, i) + c,
              LAMBDA s : <<s % Base>> \o AddFrom(a, b, i + 1, s \div Base))

BigAdd(a, b) == Bind2(a, b, LAMBDA x, y : AddFrom(x, y, 1, 0))

\* The limbs i.. of a - b for a >= b, c being the borrow from limb i.
RECURSIVE SubFrom(_, _, _, _)
SubFrom(a, b, i, c) ==
    IF i > Len(a) THEN <<>>
    ELSE Bind(a[i] - Limb(b, i) - c,
              LAMBDA s : <<IF s < 0 THEN s + Base ELSE s>>
                         \o SubFrom(a, b, i + 1, IF s < 0 THEN 1 ELSE 0))

BigSub(a, b) == Trim(Bind2(a, b, LAMBDA x, y : SubFrom(x, y, 1, 0)))

\* -1, 0, 1 as a < b, a = b, a > b.
RECURSIVE CmpFrom(_, _, _)
CmpFrom(a, b, k) ==
    IF k = 0 THEN 0
    ELSE IF a[k] < b[k] THEN -1
    ELSE IF a[k] > b[k] THEN 1
    ELSE CmpFrom(a, b, k - 1)

BigCmp(a, b) ==
    Bind2(a, b, LAMBDA x, y : IF Len(x) < Len(y) THEN -1
                              ELSE IF Len(x) > Len(y) THEN 1
                              ELSE CmpFrom(x, y, Len(x)))

\* The limbs i.. of a * k + c for a limb k, c being the carry into limb i.
RECURSIVE MulSmallFrom(_, _, _, _)
MulSmallFrom(a, k, i, c) ==
    IF i > Len(a) THEN (IF c = 0 THEN <<>> ELSE <<c>>)
    ELSE Bind(a[i] * k + c,
              LAMBDA p : <<p % Base>> \o MulSmallFrom(a, k, i + 1, p \div Base))

\* a * Base.
Shift(a) == Bind(a, LAMBDA x : IF x = <<>> THEN <<>> ELSE <<0>> \o x)

\* a * (the limbs i.. of b).
RECURSIVE MulFrom(_, _, _)
MulFrom(a, b, i) ==
    IF i > Len(b) THEN <<>>
    ELSE BigAdd(IF b[i] = 0 THEN <<>> ELSE MulSmallFrom(a, b[i], 1, 0),
                Shift(MulFrom(a, b, i + 1)))

BigMul(a, b) ==
    Bind2(a, b, LAMBDA x, y : IF x = <<>> \/ y = <<>> THEN <<>>
                              ELSE IF Len(y) = 1 THEN MulSmallFrom(x, y[1], 1, 0)
                              ELSE IF Len(x) = 1 THEN MulSmallFrom(y, x[1], 1, 0)
                              ELSE MulFrom(x, y, 1))

\* <<q, r>> with a = q * d + r and 0 <= r < d, for d > 0: m is d * p, p a power
\* of two; the multiples 2m, 4m, ... are taken out of a first.
RECURSIVE DivStep(_, _, _)
DivStep(a, m, p) ==
    Bind2(a, m, LAMBDA x, y :
        IF BigCmp(y, x) > 0 THEN <<0, x>>
        ELSE Bind(DivStep(x, BigAdd(y, y), 2 * p),
                  LAMBDA qr : IF BigCmp(y, qr[2]) <= 0
                              THEN <<qr[1] + p, BigSub(qr[2], y)>>
                              ELSE qr))

BigDivMod(a, d) == DivStep(a, d, 1)

\* The limbs 1..i of floor(a / k) for a small k, r being the running remainder.
RECURSIVE DivSmallFrom(_, _, _, _)
DivSmallFrom(a, k, i, r) ==
    IF i = 0 THEN <<>>
    ELSE Bind(r * Base + a[i],
              LAMBDA cur : DivSmallFrom(a, k, i - 1, cur % k) \o <<cur \div k>>)

BigDivSmall(a, k) == Trim(Bind(a, LAMBDA x : DivSmallFrom(x, k, Len(x), 0)))

\* Base is a multiple of 2 and of 5: the lowest limb decides divisibility.
Divides(k, a) == a # <<>> /\ a[1] % k = 0

(***************************************************************************)
(* Exact rationals: [s |-> sign, n |-> magnitude of the numerator,         *)
(* d |-> denominator > 0].  Common factors 2 and 5 (the factors of the     *)
(* decimal literals of the source) are cancelled; other common factors     *)
(* may remain, so values are compared with REq, not with =.                *)
(***************************************************************************)
RECURSIVE Cancel(_, _, _)
Cancel(n, d, k) ==
    Bind2(n, d, LAMBDA x, y : IF Divides(k, x) /\ Divides(k, y)
                              THEN Cancel(BigDivSmall(x, k), BigDivSmall(y, k), k)
                              ELSE <<x, y>>)

Rat(s, n, d) ==
    Bind(Cancel(n, d, 2),
         LAMBDA c2 : IF c2[1] = <<>> THEN [s |-> 0, n |-> <<>>, d |-> <<1>>]
                     ELSE Bind(Cancel(c2[1], c2[2], 5),
                               LAMBDA c5 : [s |-> s, n |-> c5[1], d |-> c5[2]]))

Abs(i) == IF i < 0 THEN -i ELSE i
Sgn(i) == IF i < 0 THEN -1 ELSE IF i = 0 THEN 0 ELSE 1

\* The Python int i, and the decimal literal num/den (den > 0).
RInt(i) == [s |-> Sgn(i), n |-> NatToBig(Abs(i)), d |-> <<1>>]
RDec(num, den) == Rat(Sgn(num), NatToBig(Abs(num)), NatToBig(den))

RMul(x, y) ==
    Bind2(x, y, LAMBDA u, v : Rat(u.s * v.s, BigMul(u.n, v.n), BigMul(u.d, v.d)))

\* x / y for y # 0.
RDiv(x, y) ==
    Bind2(x, y, LAMBDA u, v : Rat(u.s * v.s, BigMul(u.n, v.d), BigMul(u.d, v.n)))

RAdd(x, y) ==
    Bind2(x, y, LAMBDA u, v :
        IF u.s = 0 THEN v
        ELSE IF v.s = 0 THEN u
        ELSE Bind2(BigMul(u.n, v.d), BigMul(v.n, u.d), LAMBDA a, b :
                 IF u.s = v.s THEN Rat(u.s, BigAdd(a, b), BigMul(u.d, v.d))
                 ELSE IF BigCmp(a, b) >= 0 THEN Rat(u.s, BigSub(a, b), BigMul(u.d, v.d))
                 ELSE Rat(v.s, BigSub(b, a), BigMul(u.d, v.d))))

REq(x, y) ==
    Bind2(x, y, LAMBDA u, v : u.s = v.s /\ BigMul(u.n, v.d) = BigMul(v.n, u.d))
RIsZero(x) == x.s = 0
RNonNeg(x) == x.s >= 0

\* x in thousandths, to the nearest integer, ties to even: the number "{:.3f}"
\* prints for the exact value (the float of the program may lie on either side
\* of a tie).
Round3(x) ==
    Bind(x, LAMBDA u :
        Bind(BigDivMod(BigMul(u.n, NatToBig(1000)), u.d), LAMBDA qr :
            Bind(BigCmp(BigAdd(qr[2], qr[2]), u.d), LAMBDA c :
                u.s * (IF c > 0 \/ (c = 0 /\ qr[1] % 2 = 1) THEN qr[1] + 1 ELSE qr[1]))))

(***************************************************************************)
(* The classes.  An instance is a record; cls is type(self).__name__.      *)
(***************************************************************************)
None == [cls |-> "None"]

\* Defaults of the dataclass fields of Training.
M_IN_KM == 1000
H_IN_M == 60
SM_IN_M == 100

\* Results of a call: the value returned, or the exception raised.
Ok(v) == [err |-> "none", val |-> v]
Raise(e) == [err |-> e, val |-> None]

\* Training.__init__ as @dataclass generates it: three required parameters and
\* the three fields with defaults, all positional.  Running inherits it as is.
Training__init__(cls, data) ==
    IF Len(data) < 3 \/ Len(data) > 6 THEN Raise("TypeError")
    ELSE Ok([cls      |-> cls,
             action   |-> data[1],
             duration |-> data[2],
             weight   |-> data[3],
             M_IN_KM  |-> IF Len(data) >= 4 THEN data[4] ELSE M_IN_KM,
             H_IN_M   |-> IF Len(data) >= 5 THEN data[5] ELSE H_IN_M,
             SM_IN_M  |-> IF Len(data) >= 6 THEN data[6] ELSE SM_IN_M])

Running__init__(data) == Training__init__("Running", data)

\* Adds the fields fs to the instance super().__init__ returned.
Extend(r, fs) ==
    [f \in DOMAIN r \cup DOMAIN fs |-> IF f \in DOMAIN fs THEN fs[f] ELSE r[f]]

SportsWalking__init__(data) ==
    IF Len(data) # 4 THEN Raise("TypeError")
    ELSE Ok(Extend(Training__init__("SportsWalking", SubSeq(data, 1, 3)).val,
                   [height |-> data[4]]))

Swimming__init__(data) ==
    IF Len(data) # 5 THEN Raise("TypeError")
    ELSE Ok(Extend(Training__init__("Swimming", SubSeq(data, 1, 3)).val,
                   [length_pool |-> data[4], count_pool |-> data[5]]))

\* The keys of training_mode.
WorkoutTypes == {"SWM", "RUN", "WLK"}

\* training_mode with "WLK" given the class of "RUN".
training_mode_Swapped(workout_type) ==
    CASE workout_type = "SWM" -> "Swimming"
      [] workout_type = "RUN" -> "Running"
      [] workout_type = "WLK" -> "Running"

training_mode(workout_type) ==
    CASE workout_type = "SWM" -> "Swimming"
      [] workout_type = "RUN" -> "Running"
      [] workout_type = "WLK" -> "SportsWalking"

read_package(workout_type, data) ==
    IF workout_type \notin WorkoutTypes THEN Raise("ValueError")
    ELSE CASE training_mode(workout_type) = "Swimming" -> Swimming__init__(data)
           [] training_mode(workout_type) = "Running" -> Running__init__(data)
           [] training_mode(workout_type) = "SportsWalking" -> SportsWalking__init__(data)

\* Class attribute LEN_STEP: 0.65 in Training, 1.38 in Swimming.
LEN_STEP(cls) == IF cls = "Swimming" THEN RDec(138, 100) ELSE RDec(65, 100)

\* x / y as Python evaluates it.
PyDiv(x, y) ==
    Bind(y, LAMBDA d : IF RIsZero(d) THEN Raise("ZeroDivisionError") ELSE Ok(RDiv(x, d)))

\* The rest F of an expression after its part r: nothing if r raised.
Try(r, F(_)) == Bind(r, LAMBDA x : IF x.err # "none" THEN x ELSE F(x.val))

\* get_distance with + written for *.
get_distance_Plus(t) ==
    PyDiv(RAdd(RInt(t.action), LEN_STEP(t.cls)), RInt(t.M_IN_KM))

\* Training.get_distance and Swimming.get_distance: the same expression.
get_distance(t) ==
    PyDiv(RMul(RInt(t.action), LEN_STEP(t.cls)), RInt(t.M_IN_KM))

Training_get_mean_speed(t) ==
    Try(get_distance(t), LAMBDA dist : PyDiv(dist, RInt(t.duration)))

\* Swimming without its override of get_mean_speed.
Swimming_get_mean_speed_Inherited(t) ==
    Try(get_distance(t), LAMBDA dist : PyDiv(dist, RInt(t.duration)))

Swimming_get_mean_speed(t) ==
    Try(PyDiv(RMul(RInt(t.length_pool), RInt(t.count_pool)), RInt(t.M_IN_KM)),
        LAMBDA q : PyDiv(q, RInt(t.duration)))

\* Dispatch on the class of self.
get_mean_speed(t) ==
    IF t.cls = "Swimming" THEN Swimming_get_mean_speed(t) ELSE Training_get_mean_speed(t)

\* Running.get_spent_calories with the shift subtracted.
Running_get_spent_calories_Minus(t) ==
    Try(get_mean_speed(t), LAMBDA ms :
    Try(PyDiv(RMul(RAdd(RMul(RInt(18), ms), RDec(-179, 100)), RInt(t.weight)),
              RInt(t.M_IN_KM)), LAMBDA q :
    Ok(RMul(q, RMul(RInt(t.duration), RInt(t.H_IN_M))))))

Running_get_spent_calories(t) ==
    Try(get_mean_speed(t), LAMBDA ms :
    Try(PyDiv(RMul(RAdd(RMul(RInt(18), ms), RDec(179, 100)), RInt(t.weight)),
              RInt(t.M_IN_KM)), LAMBDA q :
    Ok(RMul(q, RMul(RInt(t.duration), RInt(t.H_IN_M))))))

\* SportsWalking.get_spent_calories with 0.029 * weight multiplying the sum.
SportsWalking_get_spent_calories_Grouped(t) ==
    Try(get_mean_speed(t), LAMBDA ms :
    Bind(RMul(ms, RDec(278, 1000)), LAMBDA v :
    Try(PyDiv(RInt(t.height), RInt(t.SM_IN_M)), LAMBDA h :
    Try(PyDiv(RMul(v, v), h), LAMBDA q :
    Ok(RMul(RMul(RMul(RAdd(RMul(RDec(35, 1000), RInt(t.weight)), q),
                      RDec(29, 1000)), RInt(t.weight)),
            RMul(RInt(t.duration), RInt(t.H_IN_M))))))))

SportsWalking_get_spent_calories(t) ==
    Try(get_mean_speed(t), LAMBDA ms :
    Bind(RMul(ms, RDec(278, 1000)), LAMBDA v :
    Try(PyDiv(RInt(t.height), RInt(t.SM_IN_M)), LAMBDA h :
    Try(PyDiv(RMul(v, v), h), LAMBDA q :
    Ok(RMul(RAdd(RMul(RDec(35, 1000), RInt(t.weight)),
                 RMul(RMul(q, RDec(29, 1000)), RInt(t.weight))),
            RMul(RInt(t.duration), RInt(t.H_IN_M))))))))

Swimming_get_spent_calories(t) ==
    Try(get_mean_speed(t), LAMBDA ms :
    Ok(RMul(RMul(RMul(RAdd(ms, RDec(11, 10)), RInt(2)), RInt(t.weight)),
            RInt(t.duration))))

\* Dispatch on the class of self.
get_spent_calories(t) ==
    CASE t.cls = "Running" -> Running_get_spent_calories(t)
      [] t.cls = "SportsWalking" -> SportsWalking_get_spent_calories(t)
      [] t.cls = "Swimming" -> Swimming_get_spent_calories(t)

\* The arguments of InfoMessage(...) are evaluated left to right; the first
\* exception leaves show_training_info.
show_training_info(t) ==
    Try(get_distance(t), LAMBDA dist :
    Try(get_mean_speed(t), LAMBDA ms :
    Try(get_spent_calories(t), LAMBDA cal :
    Ok([training_type |-> t.cls,
        duration      |-> RInt(t.duration),
        distance      |-> dist,
        speed         |-> ms,
        calories      |-> cal]))))

\* The rendered line: the type and the four numbers as "{:.3f}" prints them,
\* held as integers of thousandths.
get_message(m) ==
    [training_type |-> m.training_type,
     duration      |-> Round3(m.duration),
     distance      |-> Round3(m.distance),
     speed         |-> Round3(m.speed),
     calories      |-> Round3(m.calories)]

(***************************************************************************)
(* State.                                                                  *)
(*   packages, idx, pc, output: the __main__ block: its list, the index of *)
(*     the package the loop is at, where the loop stands, the lines        *)
(*     printed so far.                                                     *)
(*   training: the instance read_package returned last.                    *)
(*   info: the InfoMessage show_training_info returned last.               *)
(*   err: the exception that ended the script ("none" while it runs).      *)
(*   ret: for a client calling the methods directly, the last call and     *)
(*     its outcome.                                                        *)
(***************************************************************************)
VARIABLES packages, idx, pc, output, training, info, err, ret

vars == <<packages, idx, pc, output, training, info, err, ret>>

NoCall == [op |-> "none", args |-> <<>>, err |-> "none", val |-> None]
Call(op, args, r) ==
    Bind(r, LAMBDA x : [op |-> op, args |-> args, err |-> x.err, val |-> x.val])

\* Bounds of the inputs.
MaxVal == 1
MaxArgs == 7
MaxPackages == 3

\* The numbers a package may hold, and the argument sequences of every length.
Vals == -1 .. MaxVal
Data == UNION {[1 .. n -> Vals] : n \in 2 .. MaxArgs}

\* The sample list of the __main__ block.
MainPackages ==
    << <<"SWM", <<720, 1, 80, 25, 40>> >>,
       <<"RUN", <<16000, 1, 75>> >>,
       <<"WLK", <<9000, 1, 75, 180>> >> >>

\* Codes a caller may pass: the three of training_mode and others.
Codes == WorkoutTypes \cup {"XYZ", "run"}

\* Packages the script is run on: its own three, and one for each way a
\* package can go wrong (unknown code, too few arguments, zero duration) or
\* be read with more arguments than fields.
ScriptPackages ==
    {MainPackages[k] : k \in 1 .. 3}
    \cup { <<"XYZ", <<1, 2, 3>> >>,
           <<"WLK", <<9000, 1, 75>> >>,
           <<"RUN", <<16000, 0, 75>> >>,
           <<"RUN", <<16000, 1, 75, 500>> >> }

(***************************************************************************)
(* The script: for workout_type, data in packages: training =              *)
(* read_package(workout_type, data); main(training).  An exception is not  *)
(* caught anywhere: it ends the script.                                    *)
(***************************************************************************)
Init ==
    /\ packages \in UNION {[1 .. n -> ScriptPackages] : n \in 0 .. MaxPackages}
    /\ idx = 1
    /\ pc = IF packages = <<>> THEN "done" ELSE "read"
    /\ output = <<>>
    /\ training = None
    /\ info = None
    /\ err = "none"
    /\ ret = NoCall

\* Line 331: training = read_package(workout_type, data).
ReadStep ==
    /\ pc = "read"
    /\ \E r \in {read_package(packages[idx][1], packages[idx][2])} :
           IF r.err # "none"
           THEN /\ pc' = "failed"
                /\ err' = r.err
                /\ UNCHANGED training
           ELSE /\ pc' = "main"
                /\ training' = r.val
                /\ UNCHANGED err
    /\ UNCHANGED <<packages, idx, output, info, ret>>

\* The loop with the exception of main() swallowed: it goes on to the next package.
MainStep_GoesOn ==
    /\ pc = "main"
    /\ \E r \in {show_training_info(training)} :
           /\ info' = IF r.err # "none" THEN info ELSE r.val
           /\ output' = IF r.err # "none" THEN output ELSE Append(output, get_message(r.val))
    /\ idx' = idx + 1
    /\ pc' = IF idx = Len(packages) THEN "done" ELSE "read"
    /\ UNCHANGED <<packages, training, ret, err>>

\* Line 332: main(training), that is info = training.show_training_info();
\* print(info.get_message()); then the loop moves on.
MainStep ==
    /\ pc = "main"
    /\ \E r \in {show_training_info(training)} :
           IF r.err # "none"
           THEN /\ pc' = "failed"
                /\ err' = r.err
                /\ UNCHANGED <<info, output, idx>>
           ELSE /\ info' = r.val
                /\ output' = Append(output, get_message(r.val))
                /\ idx' = idx + 1
                /\ pc' = IF idx = Len(packages) THEN "done" ELSE "read"
                /\ UNCHANGED err
    /\ UNCHANGED <<packages, training, ret>>

Next == ReadStep \/ MainStep

Spec == Init /\ [][Next]_vars

(***************************************************************************)
(* A client of the module: it reads one package and then calls the methods *)
(* of the instance, and of the InfoMessage it got, in any order and any    *)
(* number of times.  ret records each call and what it returned or raised. *)
(***************************************************************************)
ApiInit ==
    /\ packages = <<>>
    /\ idx = 1
    /\ pc = "client"
    /\ output = <<>>
    /\ training = None
    /\ info = None
    /\ err = "none"
    /\ ret = NoCall

CallReadPackage(workout_type, data) ==
    /\ \E r \in {read_package(workout_type, data)} :
           /\ ret' = Call("read_package", <<workout_type, data>>, r)
           /\ training' = IF r.err = "none" THEN r.val ELSE training
    /\ UNCHANGED <<packages, idx, pc, output, info, err>>

\* get_distance storing the kilometres in self.action.
CallGetDistance_InPlace ==
    /\ training # None
    /\ \E r \in {get_distance(training)} :
           /\ ret' = Call("get_distance", <<>>, r)
           /\ training' = IF r.err = "none"
                           THEN [training EXCEPT !.action = Round3(r.val) \div 1000]
                           ELSE training
    /\ UNCHANGED <<packages, idx, pc, output, info, err>>

CallGetDistance ==
    /\ training # None
    /\ ret' = Call("get_distance", <<>>, get_distance(training))
    /\ UNCHANGED <<packages, idx, pc, output, training, info, err>>

CallGetMeanSpeed ==
    /\ training # None
    /\ ret' = Call("get_mean_speed", <<>>, get_mean_speed(training))
    /\ UNCHANGED <<packages, idx, pc, output, training, info, err>>

CallGetSpentCalories ==
    /\ training # None
    /\ ret' = Call("get_spent_calories", <<>>, get_spent_calories(training))
    /\ UNCHANGED <<packages, idx, pc, output, training, info, err>>

CallShowTrainingInfo ==
    /\ training # None
    /\ \E r \in {show_training_info(training)} :
           /\ ret' = Call("show_training_info", <<>>, r)
           /\ info' = IF r.err = "none" THEN r.val ELSE info
    /\ UNCHANGED <<packages, idx, pc, output, training, err>>

CallGetMessage ==
    /\ info # None
    /\ ret' = Call("get_message", <<>>, Ok(get_message(info)))
    /\ UNCHANGED <<packages, idx, pc, output, training, info, err>>

ApiInputs == (Codes \X Data) \cup {MainPackages[k] : k \in 1 .. 3}

ApiNext ==
    \/ ret.op = "none" /\ \E p \in ApiInputs : CallReadPackage(p[1], p[2])
    \/ CallGetDistance
    \/ CallGetMeanSpeed
    \/ CallGetSpentCalories
    \/ CallShowTrainingInfo
    \/ CallGetMessage

ApiSpec == ApiInit /\ [][ApiNext]_vars

(***************************************************************************)
(* Properties.                                                             *)
(***************************************************************************)
\* The class and the parameter count the documentation gives for each code.
VariantOf(code) ==
    CASE code = "SWM" -> "Swimming"
      [] code = "RUN" -> "Running"
      [] code = "WLK" -> "SportsWalking"

ParameterCount(code) ==
    CASE code = "SWM" -> 5
      [] code = "RUN" -> 3
      [] code = "WLK" -> 4

\* Two outcomes agree: the same exception, or equal values.
SameResult(r1, r2) == r1.err = r2.err /\ (r1.err = "none" => REq(r1.val, r2.val))

\* C1: read_package with a known code and as many arguments as the variant
\* has parameters returns an instance of exactly that variant (never a bare
\* Training); with any other code it raises ValueError and no instance is made.
C1_Dispatch ==
    ret.op = "read_package" =>
        /\ (ret.args[1] \in {"SWM", "RUN", "WLK"}
            /\ Len(ret.args[2]) = ParameterCount(ret.args[1]))
           => /\ ret.err = "none"
              /\ training = ret.val
              /\ training.cls = VariantOf(ret.args[1])
              /\ training.cls # "Training"
        /\ ret.args[1] \notin {"SWM", "RUN", "WLK"}
           => /\ ret.err = "ValueError"
              /\ training = None

C1_Witness ==
    /\ ret.op = "read_package"
    /\ ret.args = <<"WLK", <<1, 1, 1, 1>> >>
    /\ training.cls = "SportsWalking"

\* C2: with a known code and a number of arguments other than the variant's
\* parameter count, read_package raises a construction error (TypeError) and
\* returns no instance; the unit constants of a returned instance are
\* M_IN_KM = 1000, H_IN_M = 60, SM_IN_M = 100 whatever the arguments.
C2_ArityMismatchFails ==
    /\ (ret.op = "read_package"
        /\ ret.args[1] \in {"SWM", "RUN", "WLK"}
        /\ Len(ret.args[2]) # ParameterCount(ret.args[1]))
       => /\ ret.err = "TypeError"
          /\ training = None
    /\ training # None
       => /\ training.M_IN_KM = 1000
          /\ training.H_IN_M = 60
          /\ training.SM_IN_M = 100

\* What the script prints for package p, or the exception that p ends it with.
PackageLine(p) ==
    Try(read_package(p[1], p[2]), LAMBDA t :
    Try(show_training_info(t), LAMBDA m : Ok(get_message(m))))

\* PackageLine of every package the script is run on.
Lines == [p \in ScriptPackages |-> PackageLine(p)]

Fails(p) == Lines[p].err # "none"

\* C3: the lines printed are the summaries of the first packages of the list,
\* in the order of the list, one each; once a package fails, the lines of the
\* packages before it are printed and none of it or of a later package is.
C3_SequentialOutput ==
    /\ Len(output) <= Len(packages)
    /\ \A k \in 1 .. Len(output) : Lines[packages[k]] = Ok(output[k])
    /\ \A k \in 1 .. Len(packages) : Fails(packages[k]) => Len(output) < k
    /\ pc \in {"read", "main", "failed"} => Len(output) = idx - 1
    /\ pc = "failed" => Fails(packages[idx]) /\ err = Lines[packages[idx]].err
    /\ pc = "done" => Len(output) = Len(packages)

C3_Witness ==
    /\ pc = "failed"
    /\ idx = 3
    /\ Len(output) = 2
    /\ Len(packages) = 3

\* The package main() handled last is p: info and the last line are its.
JustPrinted(p) == idx > 1 /\ packages[idx - 1] = p

\* C4 as stated: Running(16000, 1, 75) has distance 10.400, mean speed 10.400
\* and calories 846.675.
C4_Original ==
    JustPrinted(<<"RUN", <<16000, 1, 75>> >>) =>
        /\ REq(info.distance, RDec(10400, 1000))
        /\ REq(info.speed, RDec(10400, 1000))
        /\ REq(info.calories, RDec(846675, 1000))

\* C4, amended: Running(16000, 1, 75) has distance 10.400, mean speed 10.400
\* and calories 850.455, which is
\* ((18 * mean_speed + 1.79) * weight / M_IN_KM) * (duration * H_IN_M),
\* and the line printed shows these numbers.
C4_RunningExample ==
    JustPrinted(<<"RUN", <<16000, 1, 75>> >>) =>
        /\ REq(info.distance, RDec(10400, 1000))
        /\ REq(info.speed, RDec(10400, 1000))
        /\ REq(info.calories, RDec(850455, 1000))
        /\ REq(info.calories,
               RMul(RDiv(RMul(RAdd(RMul(RInt(18), info.speed), RDec(179, 100)), RInt(75)),
                         RInt(1000)),
                    RMul(RInt(1), RInt(60))))
        /\ output[idx - 1] = [training_type |-> "Running", duration |-> 1000,
                              distance |-> 10400, speed |-> 10400, calories |-> 850455]

C4_Witness ==
    /\ JustPrinted(<<"RUN", <<16000, 1, 75>> >>)
    /\ info.training_type = "Running"
    /\ Len(output) = idx - 1

\* C5 as stated: SportsWalking(9000, 1, 75, 180) has distance 5.850, mean speed
\* 5.850 and calories of about 163.019.
C5_Original ==
    JustPrinted(<<"WLK", <<9000, 1, 75, 180>> >>) =>
        /\ REq(info.distance, RDec(5850, 1000))
        /\ REq(info.speed, RDec(5850, 1000))
        /\ Round3(info.calories) = 163019

\* C5, amended: SportsWalking(9000, 1, 75, 180) has distance 5.850, mean speed
\* 5.850 and calories of about 349.252, which is
\* (0.035 * weight + (mean_speed * 0.278)^2 / (height / SM_IN_M) * 0.029 * weight)
\* * (duration * H_IN_M): 0.029 * weight multiplies the quotient alone.
C5_WalkingExample ==
    JustPrinted(<<"WLK", <<9000, 1, 75, 180>> >>) =>
        /\ REq(info.distance, RDec(5850, 1000))
        /\ REq(info.speed, RDec(5850, 1000))
        /\ Round3(info.calories) = 349252
        /\ REq(info.calories,
               RMul(RAdd(RMul(RDec(35, 1000), RInt(75)),
                         RMul(RMul(RDiv(RMul(RMul(info.speed, RDec(278, 1000)),
                                             RMul(info.speed, RDec(278, 1000))),
                                        RDiv(RInt(180), RInt(100))),
                                   RDec(29, 1000)),
                              RInt(75))),
                    RMul(RInt(1), RInt(60))))
        /\ output[idx - 1] = [training_type |-> "SportsWalking", duration |-> 1000,
                              distance |-> 5850, speed |-> 5850, calories |-> 349252]

C5_Witness ==
    /\ JustPrinted(<<"WLK", <<9000, 1, 75, 180>> >>)
    /\ info.training_type = "SportsWalking"
    /\ Len(output) = idx - 1

\* The Swimming instance read_package makes of t's fields with action a, weight w.
SwimmingLike(t, a, w) ==
    read_package("SWM", <<a, t.duration, w, t.length_pool, t.count_pool>>).val

\* Other values of a field: those of the inputs, and some near v.
Others(v) == (Vals \cup {v + 1, 2 * v}) \ {v}

\* C6 as stated: two Swimming instances with equal length_pool, count_pool and
\* duration and different action have equal mean speed and equal calories,
\* and different distances; Swimming(720, 1, 80, 25, 40) has mean speed 1.0
\* and calories 336.
C6_Original ==
    /\ (training # None /\ training.cls = "Swimming") =>
          \A a \in Others(training.action), w \in Others(training.weight) \cup {training.weight} :
              /\ ret.op = "get_mean_speed"
                 => SameResult(get_mean_speed(SwimmingLike(training, a, w)), ret)
              /\ ret.op = "get_spent_calories"
                 => SameResult(get_spent_calories(SwimmingLike(training, a, w)), ret)
              /\ ret.op = "get_distance"
                 => ~SameResult(get_distance(SwimmingLike(training, a, w)), ret)
    /\ training = SwimmingLike([duration |-> 1, length_pool |-> 25, count_pool |-> 40], 720, 80) =>
          /\ ret.op = "get_mean_speed" => SameResult(ret, Ok(RInt(1)))
          /\ ret.op = "get_spent_calories" => SameResult(ret, Ok(RInt(336)))

\* C6, amended: two Swimming instances that differ in action alone (equal
\* duration, weight, length_pool and count_pool) have equal mean speed,
\* length_pool * count_pool / M_IN_KM / duration, and equal calories (or both
\* raise), and different distances, action * 1.38 / M_IN_KM;
\* Swimming(720, 1, 80, 25, 40) has mean speed 1.0 and calories 336.
C6_SpeedIgnoresAction ==
    /\ (training # None /\ training.cls = "Swimming") =>
          /\ \A a \in Others(training.action) :
              /\ ret.op = "get_mean_speed"
                 => SameResult(get_mean_speed(SwimmingLike(training, a, training.weight)), ret)
              /\ ret.op = "get_spent_calories"
                 => SameResult(get_spent_calories(SwimmingLike(training, a, training.weight)), ret)
              /\ ret.op = "get_distance"
                 => ~SameResult(get_distance(SwimmingLike(training, a, training.weight)), ret)
          /\ (ret.op = "get_mean_speed" /\ ret.err = "none")
             => REq(RMul(RMul(ret.val, RInt(1000)), RInt(training.duration)),
                    RMul(RInt(training.length_pool), RInt(training.count_pool)))
          /\ ret.op = "get_distance"
             => SameResult(ret, Ok(RDiv(RMul(RInt(training.action), RDec(138, 100)), RInt(1000))))
    /\ training = SwimmingLike([duration |-> 1, length_pool |-> 25, count_pool |-> 40], 720, 80) =>
          /\ ret.op = "get_mean_speed" => SameResult(ret, Ok(RInt(1)))
          /\ ret.op = "get_spent_calories" => SameResult(ret, Ok(RInt(336)))

C6_Witness ==
    /\ training = SwimmingLike([duration |-> 1, length_pool |-> 25, count_pool |-> 40], 720, 80)
    /\ ret.op = "get_spent_calories"
    /\ ret.err = "none"

\* C7: with weight > 0, duration > 0, action >= 0 (and height > 0,
\* length_pool >= 0, count_pool >= 0 where the variant has them), the mean
\* speed and the calories are >= 0.
C7_NonNegativeCalories ==
    (/\ training # None
     /\ training.weight > 0
     /\ training.duration > 0
     /\ training.action >= 0
     /\ training.cls = "SportsWalking" => training.height > 0
     /\ training.cls = "Swimming" => training.length_pool >= 0 /\ training.count_pool >= 0
     /\ ret.op \in {"get_mean_speed", "get_spent_calories"})
    => ret.err = "none" /\ RNonNeg(ret.val)

\* C8: an instance with duration = 0 is constructed; its get_mean_speed,
\* get_spent_calories and show_training_info raise ZeroDivisionError, no
\* InfoMessage is made of it, and its get_distance returns.
C8_ZeroDuration ==
    /\ (ret.op = "read_package"
        /\ ret.args[1] \in {"SWM", "RUN", "WLK"}
        /\ Len(ret.args[2]) = ParameterCount(ret.args[1])
        /\ ret.args[2][2] = 0)
       => ret.err = "none" /\ training.duration = 0
    /\ (training # None /\ training.duration = 0)
       => /\ ret.op \in {"get_mean_speed", "get_spent_calories", "show_training_info"}
             => ret.err = "ZeroDivisionError"
          /\ info = None
          /\ ret.op # "get_message"
          /\ ret.op = "get_distance" => ret.err = "none"

\* t with its action doubled, the other fields equal.
Doubled(t) == [t EXCEPT !.action = 2 * t.action]

\* C9: get_distance of an instance with action 2 * a is twice get_distance of
\* the instance with action a and the other fields equal (both raise when
\* one does), and get_distance * M_IN_KM is action * 0.65 for Running and
\* SportsWalking, action * 1.38 for Swimming.
C9_DistanceProportional ==
    (training # None /\ ret.op = "get_distance") =>
        /\ get_distance(Doubled(training)).err = ret.err
        /\ ret.err = "none"
           => /\ REq(get_distance(Doubled(training)).val, RMul(RInt(2), ret.val))
              /\ REq(RMul(ret.val, RInt(training.M_IN_KM)),
                     RMul(RInt(training.action),
                          IF training.cls = "Swimming" THEN RDec(138, 100) ELSE RDec(65, 100)))

C9_Witness ==
    /\ training # None
    /\ training.cls = "Swimming"
    /\ training.action = 1
    /\ ret.op = "get_distance"
    /\ ret.err = "none"
    /\ ~RIsZero(ret.val)

\* C10: once an instance is constructed no call changes a field of it, no call
\* changes a field of an InfoMessage made, and a call repeated returns what it
\* returned.
C10_NoMutation ==
    [][/\ training # None => training' = training
       /\ info # None => info' = info
       /\ ret'.op = ret.op => ret' = ret]_vars

C10_Witness ==
    /\ training # None
    /\ info # None
    /\ ret.op = "get_message"

====
